---- MODULE Spec2Model ----
(***************************************************************************)
(* Model of deidentify_zipcode.py: the ZIP code policy function            *)
(* deidentify_zipcode and the CSV row processor deidentify_csv.            *)
(*                                                                         *)
(* A Python str is a sequence of one-character strings.  A Python value    *)
(* (None, str or int) is a record [t, s, n] so that values of different    *)
(* types compare unequal, as they do in Python.                            *)
(***************************************************************************)
EXTENDS Integers, Sequences, FiniteSets, TLC

\* ------------------------------------------------------------------ bounds
\* longest input string handed to deidentify_zipcode
MaxLen == 5
\* largest int handed to deidentify_zipcode is 10^MaxIntDigits - 1 (sampled)
MaxIntDigits == 4
\* most columns of the input's header
MaxCols == 2
\* most column references handed to deidentify_csv
MaxRefs == 2
\* most data rows read from the input
MaxRows == 2

\* ------------------------------------------------------- Python values
NoneVal == [t |-> "none", s |-> <<>>, n |-> 0]
StrVal(s) == [t |-> "str", s |-> s, n |-> 0]
IntVal(k) == [t |-> "int", s |-> <<>>, n |-> k]

\* characters matched by the regular expression class \d that the model uses
DecimalChars == {"0", "1", "2", "3", "4", "5", "6", "7", "8", "9"}

\* characters removed by str.strip()
Whitespace == {" "}

\* SPARSE_ZIP_PREFIXES
SPARSE_ZIP_PREFIXES ==
    { <<"0","3","6">>, <<"0","5","9">>, <<"1","0","2">>, <<"2","0","3">>,
      <<"2","0","5">>, <<"3","6","9">>, <<"5","5","6">>, <<"6","9","2">>,
      <<"8","2","1">>, <<"8","2","3">>, <<"8","7","8">>, <<"8","7","9">>,
      <<"8","8","4">>, <<"8","9","3">> }

\* the default of the redaction_value parameter
REDACTED_HIPAA ==
    <<"R","E","D","A","C","T","E","D","_","H","I","P","A","A">>

\* ------------------------------------------------------ string helpers
DigitChar(k) ==
    CASE k = 0 -> "0" [] k = 1 -> "1" [] k = 2 -> "2" [] k = 3 -> "3"
      [] k = 4 -> "4" [] k = 5 -> "5" [] k = 6 -> "6" [] k = 7 -> "7"
      [] k = 8 -> "8" [] k = 9 -> "9"

DigitValue(c) == CHOOSE k \in 0..9 : DigitChar(k) = c

\* str(n) for an int n >= 0: decimal digits, no leading zeros
RECURSIVE IntToStr(_)
IntToStr(k) ==
    IF k < 10 THEN <<DigitChar(k)>>
    ELSE Append(IntToStr(k \div 10), DigitChar(k % 10))

\* str(zipcode)
PyStr(v) ==
    CASE v.t = "str" -> v.s
      [] v.t = "int" -> IntToStr(v.n)
      [] v.t = "none" -> <<"N","o","n","e">>

\* Python truthiness: None, '' and 0 are false
Truthy(v) ==
    CASE v.t = "none" -> FALSE
      [] v.t = "str" -> v.s # <<>>
      [] v.t = "int" -> v.n # 0

RECURSIVE LStrip(_)
LStrip(s) ==
    IF s # <<>> /\ Head(s) \in Whitespace THEN LStrip(Tail(s)) ELSE s

RECURSIVE RStrip(_)
RStrip(s) ==
    IF s # <<>> /\ s[Len(s)] \in Whitespace
    THEN RStrip(SubSeq(s, 1, Len(s) - 1)) ELSE s

\* variant: only leading whitespace is removed (str.lstrip)
StripLeadingOnly(s) == LStrip(s)

\* str.strip()
Strip(s) == RStrip(LStrip(s))

IsDecimalChar(c) == c \in DecimalChars

\* re.sub(r'[^\d]', '', s)
ExtractDigits(s) == SelectSeq(s, IsDecimalChar)

\* s[:k]
Prefix(s, k) == SubSeq(s, 1, IF k < Len(s) THEN k ELSE Len(s))

\* s * k  (k <= 0 gives '')
RECURSIVE Repeat(_, _)
Repeat(s, k) == IF k <= 0 THEN <<>> ELSE s \o Repeat(s, k - 1)

\* int(precision) for the two fixed modes
PrecisionInt(p) == CASE p = "2" -> 2 [] p = "3" -> 3

\* -------------------------------------------------- deidentify_zipcode
\* the value is returned before any masking (too few digits)
TooShort(digits) == Len(digits) < 2

\* variant: the check requires more than 3 digits
SafeHarborRedactsLongOnly(digits, precision) ==
    /\ precision \in {"2", "3"}
    /\ Len(digits) > 3
    /\ Prefix(digits, 3) \in SPARSE_ZIP_PREFIXES
    /\ precision = "3"

\* variant: both fixed precisions redact a sparse prefix
SafeHarborRedactsAnyFixed(digits, precision) ==
    /\ precision \in {"2", "3"}
    /\ Len(digits) >= 3
    /\ Prefix(digits, 3) \in SPARSE_ZIP_PREFIXES

\* variant: the check is missing and no value is redacted
SafeHarborRedactsNever(digits, precision) == FALSE

\* the Safe Harbor check returns redaction_value
SafeHarborRedacts(digits, precision) ==
    /\ precision \in {"2", "3"}
    /\ Len(digits) >= 3
    /\ Prefix(digits, 3) \in SPARSE_ZIP_PREFIXES
    /\ precision = "3"

\* variant: smart mode ignores the sparsity table
RequestedPrecisionNoSparse(digits, precision) ==
    IF precision = "smart" THEN 3 ELSE PrecisionInt(precision)

\* actual_precision before the "enough digits" adjustment
RequestedPrecision(digits, precision) ==
    IF precision = "smart"
    THEN IF Len(digits) >= 3 /\ Prefix(digits, 3) \in SPARSE_ZIP_PREFIXES
         THEN 2 ELSE 3
    ELSE PrecisionInt(precision)

\* variant: the "enough digits" adjustment is missing
ActualPrecisionUnadjusted(digits, precision) ==
    RequestedPrecision(digits, precision)

\* actual_precision after the "enough digits" adjustment
ActualPrecision(digits, precision) ==
    IF Len(digits) < RequestedPrecision(digits, precision)
    THEN Len(digits)
    ELSE RequestedPrecision(digits, precision)

\* variant: fill_count is one too many
BuildMaskedPadToSix(digits, actual_precision, fill_char) ==
    Prefix(digits, actual_precision) \o Repeat(fill_char, 6 - actual_precision)

\* variant: fill_count is taken from the number of digits, not from the
\* number of digits kept
BuildMaskedFillByDigits(digits, actual_precision, fill_char) ==
    Prefix(digits, actual_precision) \o Repeat(fill_char, 5 - Len(digits))

\* kept_digits + fill_char * fill_count
BuildMasked(digits, actual_precision, fill_char) ==
    Prefix(digits, actual_precision) \o Repeat(fill_char, 5 - actual_precision)

deidentify_zipcode(zipcode, precision, fill_char, redaction_value) ==
    IF ~Truthy(zipcode) THEN zipcode
    ELSE LET zipcode_str == Strip(PyStr(zipcode))
             digits == ExtractDigits(zipcode_str)
         IN  IF TooShort(digits) THEN StrVal(zipcode_str)
             ELSE IF SafeHarborRedacts(digits, precision) THEN redaction_value
             ELSE StrVal(BuildMasked(digits,
                                     ActualPrecision(digits, precision),
                                     fill_char))

\* --------------------------------------------------- deidentify_csv
\* a character for which str.isdigit() is true and int() fails: U+00B2,
\* SUPERSCRIPT TWO
SuperscriptTwo == "sup2"

\* characters for which str.isdigit() is true
IsDigitChars == DecimalChars \cup {SuperscriptTwo}

\* col.isdigit()
IsDigit(s) == s # <<>> /\ \A j \in 1..Len(s) : s[j] \in IsDigitChars

\* int(col) succeeds (decimal digits only)
IntParses(s) == s # <<>> /\ \A j \in 1..Len(s) : s[j] \in DecimalChars

\* int(col) for a string of decimal digits
RECURSIVE PyInt(_)
PyInt(s) ==
    IF s = <<>> THEN 0
    ELSE 10 * PyInt(SubSeq(s, 1, Len(s) - 1)) + DigitValue(s[Len(s)])

Range(f) == {f[j] : j \in 1..Len(f)}

\* 0 <= idx < len(reader.fieldnames)
InRange(idx, fieldnames) == 0 <= idx /\ idx < Len(fieldnames)

Appended(name) == [kind |-> "append", name |-> name]
Warned(w) == [kind |-> "warn", name |-> w]
Raised == [kind |-> "raise", name |-> "invalid_literal"]

\* variant: a digit-only string is tried as an index before it is
\* compared with the header names
ResolveColumnIndexFirst(col, fieldnames) ==
    IF col.t = "int"
    THEN IF InRange(col.n, fieldnames)
         THEN Appended(fieldnames[col.n + 1])
         ELSE Warned("out_of_range")
    ELSE IF IsDigit(col.s)
    THEN IF ~IntParses(col.s) THEN Raised
         ELSE IF InRange(PyInt(col.s), fieldnames)
              THEN Appended(fieldnames[PyInt(col.s) + 1])
              ELSE Warned("out_of_range")
    ELSE IF col.s \in Range(fieldnames)
    THEN Appended(col.s)
    ELSE Warned("not_found")

\* the body of the loop over zipcode_columns: what one reference does
ResolveColumn(col, fieldnames) ==
    IF col.t = "int"
    THEN IF InRange(col.n, fieldnames)
         THEN Appended(fieldnames[col.n + 1])
         ELSE Warned("out_of_range")
    ELSE IF col.s \in Range(fieldnames)
    THEN Appended(col.s)
    ELSE IF IsDigit(col.s)
    THEN IF ~IntParses(col.s) THEN Raised
         ELSE IF InRange(PyInt(col.s), fieldnames)
              THEN Appended(fieldnames[PyInt(col.s) + 1])
              ELSE Warned("out_of_range")
    ELSE Warned("not_found")

\* the last position of name in fieldnames
LastIndex(fieldnames, name) ==
    CHOOSE j \in 1..Len(fieldnames) :
        /\ fieldnames[j] = name
        /\ \A k \in (j + 1)..Len(fieldnames) : fieldnames[k] # name

\* csv.DictReader: the dict of one row over the header names; a later
\* column of the same name overwrites an earlier one, a column the row
\* is too short for holds restval (None)
RowDict(fieldnames, row) ==
    [name \in Range(fieldnames) |->
        IF LastIndex(fieldnames, name) <= Len(row)
        THEN StrVal(row[LastIndex(fieldnames, name)])
        ELSE NoneVal]

\* csv.DictReader puts the fields beyond the header under restkey (None)
HasExtraFields(fieldnames, row) == Len(row) > Len(fieldnames)

\* variant: a redaction is counted when the field read equals
\* redaction_value, not the field deidentified
RECURSIVE ProcessColumnsCountInput(_, _, _, _, _, _)
ProcessColumnsCountInput(d, count, cols, p, f, rv) ==
    IF cols = <<>> THEN [row |-> d, redaction_count |-> count]
    ELSE LET col == Head(cols)
             deidentified == deidentify_zipcode(d[col], p, f, rv)
         IN  IF col \in DOMAIN d
             THEN ProcessColumnsCountInput(
                      [d EXCEPT ![col] = deidentified],
                      IF d[col] = rv THEN count + 1 ELSE count,
                      Tail(cols), p, f, rv)
             ELSE ProcessColumnsCountInput(d, count, Tail(cols), p, f, rv)

\* the loop over columns_to_process for one row: the dict and the
\* redaction count after it
RECURSIVE ProcessColumns(_, _, _, _, _, _)
ProcessColumns(d, count, cols, p, f, rv) ==
    IF cols = <<>> THEN [row |-> d, redaction_count |-> count]
    ELSE LET col == Head(cols)
             deidentified == deidentify_zipcode(d[col], p, f, rv)
         IN  IF col \in DOMAIN d
             THEN ProcessColumns([d EXCEPT ![col] = deidentified],
                                 IF deidentified = rv THEN count + 1 ELSE count,
                                 Tail(cols), p, f, rv)
             ELSE ProcessColumns(d, count, Tail(cols), p, f, rv)

\* the field csv.writer writes for a value: None is written as ''
CsvField(v) == IF v.t = "none" THEN <<>> ELSE PyStr(v)

\* csv.DictWriter: the fields of one row in header order
WrittenRow(fieldnames, d) ==
    [j \in 1..Len(fieldnames) |-> CsvField(d[fieldnames[j]])]

\* ------------------------------------------------------------ inputs
\* characters of the input strings: digits that form sparse and non-sparse
\* prefixes, whitespace and the fill letter
InputChars == {"0", "3", "6", "1", " ", "X"}

RECURSIVE StringsUpTo(_, _)
StringsUpTo(chars, k) ==
    IF k = 0 THEN {<<>>}
    ELSE LET shorter == StringsUpTo(chars, k - 1)
         IN  shorter \cup {Append(s, c) : s \in {x \in shorter : Len(x) = k - 1},
                                          c \in chars}

RECURSIVE Pow10(_)
Pow10(k) == IF k = 0 THEN 1 ELSE 10 * Pow10(k - 1)

\* sampled ints: 0, one digit, and ints whose decimal form starts with a
\* sparse or a non-sparse prefix
InputInts == {k \in {0, 7, 36, 102, 123, 1023, 3601, 10234, 12345} :
                  k < Pow10(MaxIntDigits)}

InputValues ==
    {NoneVal} \cup {StrVal(s) : s \in StringsUpTo(InputChars, MaxLen)}
              \cup {IntVal(k) : k \in InputInts}
              \cup {StrVal(REDACTED_HIPAA)}

Precisions == {"2", "3", "smart"}
FillChars == {<<"0">>, <<"X">>}
\* the default, a custom text with a leading blank, a custom text of digits
RedactionValues ==
    {StrVal(REDACTED_HIPAA), StrVal(<<" ","*">>), StrVal(<<"1","0","0","0","0">>)}

\* sequences over S of length lo..hi
SeqsBetween(S, lo, hi) == UNION {[1..k -> S] : k \in lo..hi}

\* header names: a word and a name made of digits
HeaderNames == {<<"z">>, <<"1">>}

\* the header line of the input; <<>> is an input without a header
HeaderLines == SeqsBetween(HeaderNames, 0, MaxCols)

\* column references: int indices, header names, digit strings, a name
\* that is no header, and a digit string int() rejects
ColumnRefs ==
    { IntVal(0 - 1), IntVal(1),
      StrVal(<<"z">>), StrVal(<<"1">>), StrVal(<<"0">>), StrVal(<<"9">>),
      StrVal(<<"q">>), StrVal(<<SuperscriptTwo>>) }

ColumnRefLists == SeqsBetween(ColumnRefs, 0, MaxRefs)

\* references of the runs over inputs with data rows: a name and an index
PlainColumnRefs == {StrVal(<<"z">>), StrVal(<<"0">>)}

PlainColumnRefLists == SeqsBetween(PlainColumnRefs, 1, MaxRefs)

\* the runs: any list of references on an input that is a header only,
\* or plain references on an input of up to MaxRows data rows
Runs ==
    {[columns |-> c, rows |-> 0] : c \in ColumnRefLists}
      \cup {[columns |-> c, rows |-> k] : c \in PlainColumnRefLists,
                                          k \in 0..MaxRows}

\* fields of the data rows: a ZIP code with a sparse prefix and the text
\* a redacted field holds
FieldValues == {<<"0","3","6">>, REDACTED_HIPAA}

\* data rows the reader yields: shorter than, as long as, and longer than
\* the header (csv.DictReader skips empty rows)
DataRows == SeqsBetween(FieldValues, 1, MaxCols + 1)

\* ------------------------------------------------------------- state
VARIABLES
    zipcode,            \* deidentify_zipcode: the argument
    result,             \* deidentify_zipcode: the value returned
    again,              \* the value returned for the argument result
    precision, fill_char, redaction_value,   \* the configuration
    pc,                 \* position of the running function
    headers,            \* reader.fieldnames
    zipcode_columns,    \* the column references
    next_ref,           \* position of the loop over zipcode_columns
    columns_to_process,
    warnings,           \* the warnings printed by the resolution
    in_total,           \* the number of data rows of the input
    in_count,           \* the number of rows the reader has yielded
    in_row,             \* the row the reader yielded last
    out_open,           \* the output file has been opened for writing
    out_header,         \* the header written to the output
    out_count,          \* the number of rows written to the output
    out_row,            \* the row written to the output last
    row_count, redaction_count,
    err                 \* the exception that ended the run

cfgvars == <<precision, fill_char, redaction_value>>
zipvars == <<zipcode, result, again>>
csvvars == <<headers, zipcode_columns, next_ref, columns_to_process, warnings,
             in_total, in_count, in_row, out_open, out_header, out_count,
             out_row, row_count, redaction_count, err>>
vars == <<zipvars, cfgvars, pc, csvvars>>

\* ---------------------------------------- one call of deidentify_zipcode
Init ==
    /\ zipcode \in InputValues
    /\ precision \in Precisions
    /\ fill_char \in FillChars
    /\ redaction_value \in RedactionValues
    /\ result = NoneVal /\ again = NoneVal
    /\ pc = "call"
    /\ headers = <<>> /\ zipcode_columns = <<>> /\ next_ref = 1
    /\ columns_to_process = <<>> /\ warnings = <<>>
    /\ in_total = 0 /\ in_count = 0 /\ in_row = <<>>
    /\ out_open = FALSE /\ out_header = <<>>
    /\ out_count = 0 /\ out_row = <<>>
    /\ row_count = 0 /\ redaction_count = 0 /\ err = "none"

CallDeidentify ==
    /\ pc = "call"
    /\ result' = deidentify_zipcode(zipcode, precision, fill_char, redaction_value)
    /\ pc' = "returned"
    /\ UNCHANGED <<zipcode, again, cfgvars, csvvars>>

\* a second call of deidentify_zipcode, on the value the first returned
CallAgain ==
    /\ pc = "returned"
    /\ again' = deidentify_zipcode(result, precision, fill_char, redaction_value)
    /\ pc' = "reapplied"
    /\ UNCHANGED <<zipcode, result, cfgvars, csvvars>>

Next == CallDeidentify \/ CallAgain

Spec == Init /\ [][Next]_vars

\* ------------------------------------------- one run of deidentify_csv
InitCsv ==
    /\ zipcode = NoneVal /\ result = NoneVal /\ again = NoneVal
    /\ precision \in Precisions
    /\ fill_char \in FillChars
    /\ redaction_value = StrVal(REDACTED_HIPAA)
    /\ pc = "start"
    /\ headers \in HeaderLines
    /\ \E run \in Runs : zipcode_columns = run.columns /\ in_total = run.rows
    /\ next_ref = 1
    /\ columns_to_process = <<>> /\ warnings = <<>>
    /\ in_count = 0 /\ in_row = <<>>
    /\ out_open = FALSE /\ out_header = <<>>
    /\ out_count = 0 /\ out_row = <<>>
    /\ row_count = 0 /\ redaction_count = 0 /\ err = "none"

\* if not reader.fieldnames: raise ValueError
RaiseEmpty ==
    /\ pc = "start"
    /\ headers = <<>>
    /\ pc' = "error"
    /\ err' = "empty_csv"
    /\ UNCHANGED <<zipvars, cfgvars, headers, zipcode_columns, next_ref,
                   columns_to_process, warnings, in_total, in_count, in_row, out_open,
                   out_header, out_count, out_row, row_count,
                   redaction_count>>

\* the header is there: columns_to_process = [] and the loop begins
BeginResolve ==
    /\ pc = "start"
    /\ headers # <<>>
    /\ pc' = "resolve"
    /\ columns_to_process' = <<>>
    /\ next_ref' = 1
    /\ UNCHANGED <<zipvars, cfgvars, headers, zipcode_columns, warnings,
                   in_total, in_count, in_row, out_open, out_header, out_count,
                   out_row, row_count, redaction_count, err>>

\* one iteration of the loop over zipcode_columns
ResolveNext ==
    /\ pc = "resolve"
    /\ next_ref <= Len(zipcode_columns)
    /\ LET r == ResolveColumn(zipcode_columns[next_ref], headers)
       IN  /\ columns_to_process' =
                 IF r.kind = "append" THEN Append(columns_to_process, r.name)
                 ELSE columns_to_process
           /\ warnings' =
                 IF r.kind = "warn" THEN Append(warnings, r.name) ELSE warnings
           /\ pc' = IF r.kind = "raise" THEN "error" ELSE "resolve"
           /\ err' = IF r.kind = "raise" THEN r.name ELSE err
    /\ next_ref' = next_ref + 1
    /\ UNCHANGED <<zipvars, cfgvars, headers, zipcode_columns, in_total,
                   in_count, in_row, out_open, out_header, out_count, out_row,
                   row_count, redaction_count>>

\* variant: the output file is opened together with the input, so the
\* failed resolution leaves a created, empty output
RaiseNoColumnsOutputOpen ==
    /\ pc = "resolve"
    /\ next_ref > Len(zipcode_columns)
    /\ columns_to_process = <<>>
    /\ pc' = "error"
    /\ err' = "no_columns"
    /\ out_open' = TRUE
    /\ UNCHANGED <<zipvars, cfgvars, headers, zipcode_columns, next_ref,
                   columns_to_process, warnings, in_total, in_count, in_row,
                   out_header, out_count, out_row, row_count,
                   redaction_count>>

\* if not columns_to_process: raise ValueError
RaiseNoColumns ==
    /\ pc = "resolve"
    /\ next_ref > Len(zipcode_columns)
    /\ columns_to_process = <<>>
    /\ pc' = "error"
    /\ err' = "no_columns"
    /\ UNCHANGED <<zipvars, cfgvars, headers, zipcode_columns, next_ref,
                   columns_to_process, warnings, in_total, in_count, in_row, out_open,
                   out_header, out_count, out_row, row_count,
                   redaction_count>>

\* the counters are set to 0, the output is opened, the header is written
OpenOutput ==
    /\ pc = "resolve"
    /\ next_ref > Len(zipcode_columns)
    /\ columns_to_process # <<>>
    /\ row_count' = 0
    /\ redaction_count' = 0
    /\ out_open' = TRUE
    /\ out_header' = headers
    /\ pc' = "stream"
    /\ UNCHANGED <<zipvars, cfgvars, headers, zipcode_columns, next_ref,
                   columns_to_process, warnings, in_total, in_count, in_row,
                   out_count, out_row, err>>

\* one iteration of the loop over the reader: a row is read, its
\* columns are deidentified, and it is written (writerow raises on a row
\* with more fields than the header, before it writes).  The two files
\* are sequential: of each the state holds the number of rows passed
\* and the last row.
ProcessRow ==
    /\ pc = "stream"
    /\ in_count < in_total
    /\ \E row \in DataRows :
          LET after == ProcessColumns(RowDict(headers, row), redaction_count,
                                      columns_to_process, precision,
                                      fill_char, redaction_value)
          IN  /\ in_count' = in_count + 1
              /\ in_row' = row
              /\ redaction_count' = after.redaction_count
              /\ IF HasExtraFields(headers, row)
                 THEN /\ pc' = "error"
                      /\ err' = "extra_fields"
                      /\ UNCHANGED <<out_count, out_row, row_count>>
                 ELSE /\ out_count' = out_count + 1
                      /\ out_row' = WrittenRow(headers, after.row)
                      /\ row_count' = row_count + 1
                      /\ UNCHANGED <<pc, err>>
    /\ UNCHANGED <<zipvars, cfgvars, headers, zipcode_columns, next_ref,
                   columns_to_process, warnings, in_total, out_open,
                   out_header>>

\* the reader is exhausted: the files are closed, the summary is printed
Finish ==
    /\ pc = "stream"
    /\ in_count = in_total
    /\ pc' = "done"
    /\ UNCHANGED <<zipvars, cfgvars, csvvars>>

NextCsv ==
    \/ RaiseEmpty
    \/ BeginResolve
    \/ ResolveNext
    \/ RaiseNoColumns
    \/ OpenOutput
    \/ ProcessRow
    \/ Finish

SpecCsv == InitCsv /\ [][NextCsv]_vars

\* ------------------- a call of deidentify_zipcode or a run of deidentify_csv
InitBoth == Init \/ InitCsv

NextBoth == Next \/ NextCsv

SpecBoth == InitBoth /\ [][NextBoth]_vars

\* ------------------------------------------------ policy function claims
\* the digits of the input value, in order
InputDigits == SelectSeq(PyStr(zipcode), LAMBDA c : c \in DecimalChars)

\* the input has a 3-digit prefix and it is in the sparsity table
InputIsSparse ==
    /\ Len(InputDigits) >= 3
    /\ SubSeq(InputDigits, 1, 3) \in SPARSE_ZIP_PREFIXES

\* r is k leading digits of the input followed by fill characters, 5 in all
IsMasked(r, k) ==
    /\ r.t = "str"
    /\ Len(r.s) = 5
    /\ Len(InputDigits) >= k
    /\ \A j \in 1..k : r.s[j] = InputDigits[j]
    /\ \A j \in (k + 1)..5 : <<r.s[j]>> = fill_char

\* r is s without its leading and trailing whitespace
IsTrimOf(r, s) ==
    /\ r = <<>> \/ (r[1] \notin Whitespace /\ r[Len(r)] \notin Whitespace)
    /\ \E a \in 0..Len(s) :
          /\ a + Len(r) <= Len(s)
          /\ \A j \in 1..Len(r) : r[j] = s[a + j]
          /\ \A j \in 1..Len(s) :
                (j <= a \/ j > a + Len(r)) => s[j] \in Whitespace

\* C1: with precision '3', an input with at least 3 digits whose first 3
\* digits are in the sparsity table returns exactly redaction_value, for
\* the default and for custom redaction values and either fill character.
C1_SparseFixed3Redacts ==
    (pc = "returned" /\ precision = "3" /\ InputIsSparse)
        => result = redaction_value

C1_Witness ==
    /\ pc = "returned" /\ precision = "3" /\ InputIsSparse
    /\ Len(InputDigits) = 3
    /\ redaction_value # StrVal(REDACTED_HIPAA)
    /\ fill_char = <<"X">>
    /\ result = redaction_value

\* C2: with precision 'smart' the output never equals redaction_value,
\* for any raw value, fill character and redaction_value.
C2_SmartNeverEqualsRedaction ==
    (pc = "returned" /\ precision = "smart") => result # redaction_value

\* C3 (as claimed): fixed precision N, at least 2 digits, non-sparse prefix:
\* the output is the first N digits of the input followed by 5-N fill
\* characters.
C3_FixedKeepsN ==
    (pc = "returned" /\ precision \in {"2", "3"}
       /\ Len(InputDigits) >= 2 /\ ~InputIsSparse)
        => IsMasked(result, IF precision = "2" THEN 2 ELSE 3)

\* C3 (amended): fixed precision N, at least 2 digits, non-sparse prefix:
\* the output has length 5, its first min(N, number of digits) characters
\* are the leading digits of the input and the rest is the fill character.
C3_FixedKeepsMinN ==
    (pc = "returned" /\ precision \in {"2", "3"}
       /\ Len(InputDigits) >= 2 /\ ~InputIsSparse)
        => IsMasked(result, IF precision = "2" \/ Len(InputDigits) = 2
                            THEN 2 ELSE 3)

C3_Witness ==
    /\ pc = "returned" /\ precision = "3" /\ ~InputIsSparse
    /\ Len(InputDigits) = 2
    /\ fill_char = <<"X">>
    /\ result = StrVal(<<InputDigits[1], InputDigits[2], "X", "X", "X">>)

\* C4 (as claimed): smart mode, at least 2 digits: 2 leading digits are kept
\* iff the 3-digit prefix is in the sparsity table, 3 otherwise, followed by
\* fill characters up to 5 positions.
C4_SmartKeeps2IffSparse ==
    (pc = "returned" /\ precision = "smart" /\ Len(InputDigits) >= 2)
        => IsMasked(result, IF InputIsSparse THEN 2 ELSE 3)

\* C4 (amended): smart mode, at least 3 digits: 2 leading digits are kept
\* iff the 3-digit prefix is in the sparsity table, 3 otherwise; with
\* exactly 2 digits both are kept; the kept digits are followed by fill
\* characters up to 5 positions.
C4_SmartKeeps2IffSparseOrShort ==
    (pc = "returned" /\ precision = "smart" /\ Len(InputDigits) >= 2)
        => IsMasked(result, IF InputIsSparse \/ Len(InputDigits) = 2
                            THEN 2 ELSE 3)

C4_Witness ==
    /\ pc = "returned" /\ precision = "smart" /\ InputIsSparse
    /\ fill_char = <<"0">>
    /\ result = StrVal(<<InputDigits[1], InputDigits[2], "0", "0", "0">>)

\* C5: with precision '2' an input with a sparse 3-digit prefix is not
\* redacted: the output is its first 2 digits followed by 3 fill characters.
C5_SparseFixed2Masks ==
    (pc = "returned" /\ precision = "2" /\ InputIsSparse)
        => IsMasked(result, 2)

C5_Witness ==
    /\ pc = "returned" /\ precision = "2" /\ InputIsSparse
    /\ result = StrVal(<<InputDigits[1], InputDigits[2]>> \o fill_char
                          \o fill_char \o fill_char)

CurrentRef == zipcode_columns[next_ref]

\* a string made of decimal digits only
IsIndexString(s) == s # <<>> /\ \A j \in 1..Len(s) : s[j] \in DecimalChars

\* C7: a string reference equal to a header name resolves to that header,
\* also when it is made of digits and is a valid index; a digit-only
\* string is used as an index only when no header has that name; an int
\* reference is always an index.
C7_NameMatchWins ==
    [][(pc = "resolve" /\ next_ref <= Len(zipcode_columns)) =>
        /\ (CurrentRef.t = "str" /\ CurrentRef.s \in Range(headers))
              => columns_to_process' = Append(columns_to_process, CurrentRef.s)
        /\ (CurrentRef.t = "str" /\ CurrentRef.s \notin Range(headers)
              /\ IsIndexString(CurrentRef.s)
              /\ PyInt(CurrentRef.s) < Len(headers))
              => columns_to_process' =
                    Append(columns_to_process, headers[PyInt(CurrentRef.s) + 1])
        /\ (CurrentRef.t = "int" /\ 0 <= CurrentRef.n
              /\ CurrentRef.n < Len(headers))
              => columns_to_process' =
                    Append(columns_to_process, headers[CurrentRef.n + 1])
        /\ (CurrentRef.t = "int"
              /\ (CurrentRef.n < 0 \/ CurrentRef.n >= Len(headers)))
              => columns_to_process' = columns_to_process
      ]_vars

\* the header "1" is column 0, the reference '1' resolved to it and not
\* to column 1
C7_Witness ==
    /\ pc = "resolve" /\ next_ref = 2
    /\ headers = << <<"1">>, <<"z">> >>
    /\ zipcode_columns[1] = StrVal(<<"1">>)
    /\ columns_to_process = << <<"1">> >>

\* C8: when the input has no header or the resolution yields no column,
\* the run fails before the output is opened; the output is opened only
\* after the resolution has ended with at least one column, so a failed
\* resolution writes nothing.
C8_OutputOpenedAfterResolution ==
    /\ out_open => (/\ headers # <<>>
                    /\ next_ref > Len(zipcode_columns)
                    /\ columns_to_process # <<>>)
    /\ (headers = <<>> /\ pc # "start") => (pc = "error" /\ err = "empty_csv")
    /\ (columns_to_process = <<>> /\ pc \notin {"start", "resolve"})
          => pc = "error"
    /\ (pc = "error" /\ err \in {"empty_csv", "no_columns", "invalid_literal"})
          => (~out_open /\ out_header = <<>> /\ out_count = 0)

C8_Witness ==
    /\ pc = "error" /\ err = "no_columns"
    /\ headers # <<>>
    /\ Len(zipcode_columns) = MaxRefs
    /\ ~out_open /\ out_header = <<>> /\ out_count = 0

\* the input field of column j of a row; None when the row is too short
InputField(row, j) == IF j <= Len(row) THEN StrVal(row[j]) ELSE NoneVal

\* C9: after a successful run the output has the input's header and as
\* many rows as the input; in the row written for an input row (every row
\* of a run is the last one of the run that ends after it) every field of
\* a column that is not resolved equals the input field, and every field
\* of a resolved column equals deidentify_zipcode of the input field (a
\* field the row is too short for is written empty).
C9_OutputPreserved ==
    pc = "done" =>
        /\ out_header = headers
        /\ out_count = in_count
        /\ in_count > 0 =>
              /\ Len(out_row) = Len(headers)
              /\ \A j \in 1..Len(headers) :
                    out_row[j] =
                        IF headers[j] \in Range(columns_to_process)
                        THEN CsvField(deidentify_zipcode(
                                 InputField(in_row, j), precision,
                                 fill_char, redaction_value))
                        ELSE CsvField(InputField(in_row, j))

\* a reference that denotes a column of the header
RefIsValid(r) ==
    \/ r.t = "int" /\ 0 <= r.n /\ r.n < Len(headers)
    \/ r.t = "str" /\ r.s \in Range(headers)
    \/ r.t = "str" /\ IsIndexString(r.s) /\ PyInt(r.s) < Len(headers)

\* the header a valid reference denotes
RefHeader(r) ==
    IF r.t = "int" THEN headers[r.n + 1]
    ELSE IF r.s \in Range(headers) THEN r.s
    ELSE headers[PyInt(r.s) + 1]

\* the headers of the valid references, in the order of the references
RECURSIVE ValidHeaders(_)
ValidHeaders(refs) ==
    IF refs = <<>> THEN <<>>
    ELSE IF RefIsValid(Head(refs))
         THEN <<RefHeader(Head(refs))>> \o ValidHeaders(Tail(refs))
         ELSE ValidHeaders(Tail(refs))

\* C10: an invalid column reference is never fatal by itself: it is
\* dropped with a warning, and when at least one other reference is valid
\* the run proceeds with exactly the headers of the valid references, in
\* the order the references were given.
C10_InvalidRefNeverFatal ==
    (/\ headers # <<>>
     /\ pc \notin {"start", "resolve"}
     /\ \E k \in 1..Len(zipcode_columns) : RefIsValid(zipcode_columns[k]))
        => /\ err \notin {"no_columns", "invalid_literal"}
           /\ columns_to_process = ValidHeaders(zipcode_columns)
           /\ Len(warnings) = Len(zipcode_columns) - Len(columns_to_process)

\* C11: a run ends either in success with every input row written to the
\* output, or in failure with no row written; no error is reported after
\* some rows have been written, also for rows whose field count differs
\* from the header's.
C11_AllOrNothing ==
    /\ pc = "done" => out_count = in_total
    /\ pc = "error" => out_count = 0

\* the value deidentify_zipcode returns when it is applied m times
RECURSIVE Reapplied(_, _)
Reapplied(v, m) ==
    IF m = 0 THEN v
    ELSE deidentify_zipcode(Reapplied(v, m - 1), precision, fill_char,
                            redaction_value)

\* how often the column of position k of cols occurs in cols[1..k]
Occurrence(cols, k) == Cardinality({j \in 1..k : cols[j] = cols[k]})

\* the (row, resolved column) results of one row that equal redaction_value
RedactionResults(row) ==
    {k \in 1..Len(columns_to_process) :
        Reapplied(RowDict(headers, row)[columns_to_process[k]],
                  Occurrence(columns_to_process, k)) = redaction_value}

\* C12: while the rows are streamed, redaction_count grows by exactly one
\* for each (row, resolved column) result of deidentify_zipcode that equals
\* redaction_value and by nothing else, row_count grows by exactly one for
\* each row written, and both start at 0 and never decrease.
C12_CountersStepByOne ==
    [][/\ (pc = "resolve" /\ pc' = "stream")
            => (row_count' = 0 /\ redaction_count' = 0)
       /\ (pc = "stream" /\ in_count' = in_count + 1)
            => /\ redaction_count' =
                     redaction_count + Cardinality(RedactionResults(in_row'))
               /\ row_count' = row_count + (out_count' - out_count)
               /\ out_count' - out_count \in {0, 1}
       /\ (pc = "stream" /\ in_count' = in_count)
            => (row_count' = row_count /\ redaction_count' = redaction_count)
       /\ row_count' >= row_count
       /\ redaction_count' >= redaction_count
      ]_vars

\* two rows were written and both fields of the second one were redacted
C12_Witness ==
    /\ pc = "stream" /\ precision = "3"
    /\ row_count = 2 /\ out_count = 2
    /\ redaction_count >= 3
    /\ Len(out_row) = 2
    /\ \A j \in 1..2 : out_row[j] = REDACTED_HIPAA

\* C13: in every mode the output is exactly 5 characters long unless the
\* value had fewer than 2 digits or the redaction fired; when only 2
\* digits are available and the precision is '3' or 'smart', those 2
\* digits are kept and the fill pads to 5 characters.
C13_LengthFive ==
    (pc = "returned" /\ Len(InputDigits) >= 2
       /\ ~(precision = "3" /\ InputIsSparse))
        => /\ result.t = "str"
           /\ Len(result.s) = 5
           /\ (Len(InputDigits) = 2 /\ precision \in {"3", "smart"})
                 => IsMasked(result, 2)

C13_Witness ==
    /\ pc = "returned" /\ precision = "smart"
    /\ Len(InputDigits) = 2
    /\ zipcode.t = "str" /\ Len(zipcode.s) > 2
    /\ Len(result.s) = 5
    /\ SubSeq(result.s, 1, 2) = InputDigits
    /\ SubSeq(result.s, 3, 5) = fill_char \o fill_char \o fill_char

\* C14: the resolved column list holds no header twice: two references
\* that denote the same header (the same name twice, or a name and the
\* index of that header) leave it once in the list.
C14_ResolvedListHasNoDuplicates ==
    \A j, k \in 1..Len(columns_to_process) :
        j # k => columns_to_process[j] # columns_to_process[k]

\* the digits of redaction_value
RedactionDigits == SelectSeq(redaction_value.s, LAMBDA c : c \in DecimalChars)

\* C16 (as claimed): with a redaction_value of fewer than 2 digits,
\* deidentify_zipcode applied to its own output returns that output, for
\* every input, mode and fill character.
C16_Idempotent ==
    (pc = "reapplied" /\ Len(RedactionDigits) < 2) => again = result

\* C16 (amended): with a redaction_value of fewer than 2 digits that has no
\* leading or trailing whitespace, deidentify_zipcode applied to its own
\* output returns that output, for every input, mode and fill character.
C16_IdempotentForTrimmedRedaction ==
    (pc = "reapplied" /\ Len(RedactionDigits) < 2
       /\ IsTrimOf(redaction_value.s, redaction_value.s))
        => again = result

\* a redacted value and a masked value are returned unchanged
C16_Witness ==
    /\ pc = "reapplied" /\ again = result
    /\ redaction_value = StrVal(REDACTED_HIPAA)
    /\ \/ precision = "3" /\ InputIsSparse /\ result = redaction_value
       \/ precision = "smart" /\ InputIsSparse /\ fill_char = <<"0">>
            /\ Len(result.s) = 5

\* the text begins with a 3-digit prefix of the sparsity table
BeginsSparse(s) == Len(s) >= 3 /\ SubSeq(s, 1, 3) \in SPARSE_ZIP_PREFIXES

\* C15: with the default redaction_value, in every mode and for either
\* fill character and every input, the first three characters of the
\* output of deidentify_zipcode are not in SPARSE_ZIP_PREFIXES; and after a
\* successful run of deidentify_csv no field of a resolved column of the
\* output begins with a sparse 3-digit prefix.
C15_OutputNeverSparse ==
    /\ (pc \in {"returned", "reapplied"}
          /\ redaction_value = StrVal(REDACTED_HIPAA))
         => ~(result.t = "str" /\ BeginsSparse(result.s))
    /\ (pc = "done" /\ out_count > 0
          /\ redaction_value = StrVal(REDACTED_HIPAA))
         => \A j \in 1..Len(headers) :
               headers[j] \in Range(columns_to_process)
                  => ~BeginsSparse(out_row[j])

\* a run ended whose last row had a sparse ZIP code in a resolved column
C15_Witness ==
    /\ pc = "done" /\ out_count > 0
    /\ \E j \in 1..Len(headers) :
          /\ headers[j] \in Range(columns_to_process)
          /\ j <= Len(in_row) /\ BeginsSparse(in_row[j])
          /\ out_row[j] \in {REDACTED_HIPAA, <<"0","3","0","0","0">>,
                             <<"0","3","X","X","X">>}

\* the fields of a row that lie in a resolved column, begin (after cleaning)
\* with a sparse 3-digit prefix and are redacted under precision '3'
SparseReplacedFields(row) ==
    {j \in 1..Len(headers) :
        /\ j <= Len(row)
        /\ headers[j] \in Range(columns_to_process)
        /\ precision = "3"
        /\ BeginsSparse(ExtractDigits(Strip(row[j])))}

\* C17: the redaction count grows, for each row read, by the number of
\* fields of the row in the targeted columns that had a sparse 3-digit
\* prefix and were replaced by redaction_value under precision '3'; a field
\* passed through or masked is not counted and no field is counted twice.
C17_CountIsSparseReplaced ==
    [][(pc = "stream" /\ in_count' = in_count + 1)
          => redaction_count' =
                redaction_count + Cardinality(SparseReplacedFields(in_row'))
      ]_vars

====
